---- MODULE Spec2Model ----
(***************************************************************************)
(* Model of admission/admin.py: the Django admin registration layer of    *)
(* the admission portal.  The state is the record store the admin reads    *)
(* and writes (Department, Teacher, Application, ApplicationFile,          *)
(* Payment), the last value a handler returned to the framework, and two   *)
(* history variables about the bulk actions.  There is one action per      *)
(* handler of the file: the four bulk actions of ApplicationAdmin and the  *)
(* five derived display columns.                                           *)
(***************************************************************************)
EXTENDS Integers, FiniteSets, Sequences, TLC

VARIABLES Department, Teacher, Application, ApplicationFile, Payment,
          rendered, initial_status, last_action

store == <<Department, Teacher, Application, ApplicationFile, Payment>>
history == <<initial_status, last_action>>
vars == <<Department, Teacher, Application, ApplicationFile, Payment,
          rendered, initial_status, last_action>>

(* ------------------------------ bounds -------------------------------- *)
NumDepartments == 2
NumApplications == 2
NumPayments == 3
NumFiles == 2

DepartmentIds == 1..NumDepartments
ApplicationIds == 1..NumApplications
PaymentIds == 1..NumPayments
FileIds == 1..NumFiles

(* --------------------------- enumerations ----------------------------- *)
\* Application.status values written by the four bulk actions.
ApplicationStatuses == {"pending", "under_review", "approved", "rejected"}
\* Payment.status: "completed" is the value has_payment filters on; "pending"
\* stands for every other value.
PaymentStatuses == {"pending", "completed"}
Amounts == {50, 100}
\* ApplicationFile.file: a FieldFile is falsy exactly when its name is empty.
FileNames == {"", "transcript.pdf"}

(* --------------------- the framework's URL registry -------------------- *)
\* The package admin.py lives in (its models are imported from .models): Django
\* labels an app by the last component of its package, and the admin site names
\* its URLs after that label.  The handlers below ask for names under the label
\* "appname", which this site does not register.
app_label == "admission"
\* Models registered with the admin site by @admin.register.
registered_models == {"department", "teacher", "application", "payment"}
admin_views == {"changelist", "add", "change", "delete", "history"}
\* Names the admin site registers: admin:<app_label>_<model>_<view>.
admin_url_names ==
    {"admin:" \o app_label \o "_" \o m \o "_" \o v :
        m \in registered_models, v \in admin_views}

NoReverseMatch == "NoReverseMatch"
NoUrl == [name |-> "", arg |-> "", query |-> ""]

\* django.urls.reverse as the handlers use it: the URL of a registered name,
\* an exception for a name the site does not know.
reverse_ok(viewname) == viewname \in admin_url_names
reverse(viewname, arg) == [name |-> viewname, arg |-> arg, query |-> ""]

(* ----------------------------- rendering ------------------------------ *)
\* What a list column hands back to the framework: the output of format_html
\* (or a plain value), or the exception that left the handler.
Html(column, obj, kind, href, text, color, amount) ==
    [column |-> column, obj |-> obj, raised |-> "", kind |-> kind,
     href |-> href, text |-> text, color |-> color, amount |-> amount]
Raised(column, obj, exc) ==
    [column |-> column, obj |-> obj, raised |-> exc, kind |-> "",
     href |-> NoUrl, text |-> "", color |-> "", amount |-> <<>>]
NothingRendered == Raised("", 0, "")

(* ------------------------------ queries ------------------------------- *)
\* obj.application_set for a Department.
application_set(dept) == {a \in ApplicationIds : Application[a].department = dept}
\* obj.payment_set for an Application.
payment_set(app) == {p \in PaymentIds : Payment[p].application = app}
\* obj.applicationfile_set for an Application.
applicationfile_set(app) == {f \in FileIds : ApplicationFile[f].application = app}
\* A filter that drops its condition and keeps every payment.
filter_status_dropped(payments, value) == payments

\* queryset.filter(status=value) on payments.
filter_status(payments, value) == {p \in payments : Payment[p].status = value}

RECURSIVE Sum(_)
\* aggregate(total=Sum('amount')) over a non-empty set of payments.
Sum(payments) ==
    IF payments = {} THEN 0
    ELSE LET p == CHOOSE q \in payments : TRUE
         IN Payment[p].amount + Sum(payments \ {p})


(* ------------------ derived display columns (values) ------------------ *)
\* DepartmentAdmin.application_count: the value it returns, or the exception
\* reverse() raises.
application_count_result(obj) ==
    LET count == Cardinality(application_set(obj))
        viewname == "admin:appname_application_changelist"
    IN  IF ~reverse_ok(viewname)
        THEN Raised("application_count", obj, NoReverseMatch)
        ELSE LET url == [reverse(viewname, "") EXCEPT
                            !.query = "department__id__exact="
                                      \o ToString(Department[obj].id)]
             IN  Html("application_count", obj, "a", url, ToString(count), "", <<>>)

\* FieldFile.url of a stored file.
file_url(name) == [name |-> "storage", arg |-> name, query |-> ""]

\* A file_preview without the test for an attached file.
file_preview_result_unguarded(obj) ==
    Html("file_preview", obj, "a", file_url(ApplicationFile[obj].file),
         "View File", "", <<>>)

\* ApplicationFileInline.file_preview.
file_preview_result(obj) ==
    IF ApplicationFile[obj].file # ""
    THEN Html("file_preview", obj, "a", file_url(ApplicationFile[obj].file),
              "View File", "", <<>>)
    ELSE Html("file_preview", obj, "text", NoUrl, "-", "", <<>>)

\* ApplicationAdmin.has_payment.
has_payment_result(obj) ==
    LET payments == filter_status(payment_set(obj), "completed")
    IN  IF payments # {}
        THEN LET total_paid == Sum(payments)
             IN  Html("has_payment", obj, "span", NoUrl, "paid", "green",
                      <<total_paid>>)
        ELSE Html("has_payment", obj, "span", NoUrl, "unpaid", "red", <<>>)

\* A file_count over the whole ApplicationFile table.
file_count_result_all(obj) ==
    Html("file_count", obj, "value", NoUrl, ToString(Cardinality(FileIds)), "", <<>>)

\* ApplicationAdmin.file_count.
file_count_result(obj) ==
    Html("file_count", obj, "value", NoUrl,
         ToString(Cardinality(applicationfile_set(obj))), "", <<>>)

\* PaymentAdmin.application_link.
application_link_result(obj) ==
    LET app == Payment[obj].application
        viewname == "admin:appname_application_change"
    IN  IF ~reverse_ok(viewname)
        THEN Raised("application_link", obj, NoReverseMatch)
        ELSE Html("application_link", obj, "a", reverse(viewname, ToString(app)),
                  Application[app].full_name, "", <<>>)

(* ----------------- derived display columns (handlers) ----------------- *)
application_count(obj) ==
    /\ rendered' = application_count_result(obj)
    /\ UNCHANGED <<store, history>>

file_preview(obj) ==
    /\ rendered' = file_preview_result(obj)
    /\ UNCHANGED <<store, history>>

\* A has_payment that approves an application once it is paid.
has_payment_approving(obj) ==
    /\ rendered' = has_payment_result(obj)
    /\ Application' = [Application EXCEPT ![obj].status =
                          IF rendered'.color = "green" THEN "approved" ELSE @]
    /\ UNCHANGED <<Department, Teacher, ApplicationFile, Payment, history>>

has_payment(obj) ==
    /\ rendered' = has_payment_result(obj)
    /\ UNCHANGED <<store, history>>

file_count(obj) ==
    /\ rendered' = file_count_result(obj)
    /\ UNCHANGED <<store, history>>

application_link(obj) ==
    /\ rendered' = application_link_result(obj)
    /\ UNCHANGED <<store, history>>

(* ---------------------------- bulk actions ---------------------------- *)
\* An update that skips records whose status is final.
update_unless_decided(queryset, value) ==
    [a \in ApplicationIds |->
        IF a \in queryset /\ Application[a].status \notin {"approved", "rejected"}
        THEN [Application[a] EXCEPT !.status = value]
        ELSE Application[a]]

\* An update on the whole table instead of the selection.
update_all(queryset, value) ==
    [a \in ApplicationIds |-> [Application[a] EXCEPT !.status = value]]

\* An update that saves each record, which also stamps updated_at.
update_by_save(queryset, value) ==
    [a \in ApplicationIds |->
        IF a \in queryset
        THEN [Application[a] EXCEPT !.status = value, !.updated_at = @ + 1]
        ELSE Application[a]]

\* queryset.update(status=value): one UPDATE statement over the selected rows,
\* writing the status column only.
update(queryset, value) ==
    [a \in ApplicationIds |->
        IF a \in queryset
        THEN [Application[a] EXCEPT !.status = value]
        ELSE Application[a]]

\* History: which bulk action selected each application last.
Selected(queryset, target) ==
    /\ last_action' = [a \in ApplicationIds |->
                          IF a \in queryset THEN target ELSE last_action[a]]
    /\ UNCHANGED initial_status

mark_as_pending(queryset) ==
    /\ Application' = update(queryset, "pending")
    /\ rendered' = NothingRendered
    /\ Selected(queryset, "pending")
    /\ UNCHANGED <<Department, Teacher, ApplicationFile, Payment>>

mark_as_under_review(queryset) ==
    /\ Application' = update(queryset, "under_review")
    /\ rendered' = NothingRendered
    /\ Selected(queryset, "under_review")
    /\ UNCHANGED <<Department, Teacher, ApplicationFile, Payment>>

mark_as_approved(queryset) ==
    /\ Application' = update(queryset, "approved")
    /\ rendered' = NothingRendered
    /\ Selected(queryset, "approved")
    /\ UNCHANGED <<Department, Teacher, ApplicationFile, Payment>>

\* A mark_as_rejected pasted from mark_as_approved with the value left as it was.
mark_as_rejected_pasted(queryset) ==
    /\ Application' = update(queryset, "approved")
    /\ rendered' = NothingRendered
    /\ Selected(queryset, "rejected")
    /\ UNCHANGED <<Department, Teacher, ApplicationFile, Payment>>

mark_as_rejected(queryset) ==
    /\ Application' = update(queryset, "rejected")
    /\ rendered' = NothingRendered
    /\ Selected(queryset, "rejected")
    /\ UNCHANGED <<Department, Teacher, ApplicationFile, Payment>>

(* ------------------------------- store -------------------------------- *)
SeedDepartment == [d \in DepartmentIds |-> [id |-> d]]
SeedTeacher == [t \in DepartmentIds |-> [department |-> t, is_active |-> TRUE]]
SeedApplication ==
    [a \in ApplicationIds |->
        [full_name |-> "applicant " \o ToString(a),
         department |-> ((a - 1) % NumDepartments) + 1,
         status |-> "pending",
         updated_at |-> 0]]
SeedApplicationFile ==
    [f \in FileIds |->
        [application |-> ((f - 1) % NumApplications) + 1,
         file |-> IF f % 2 = 1 THEN "transcript.pdf" ELSE ""]]
SeedPayment ==
    [p \in PaymentIds |->
        [application |-> ((p - 1) % NumApplications) + 1,
         amount |-> IF p % 2 = 1 THEN 100 ELSE 50,
         status |-> IF p % 2 = 1 THEN "completed" ELSE "pending"]]

NoHistory ==
    /\ rendered = NothingRendered
    /\ initial_status = [a \in ApplicationIds |-> Application[a].status]
    /\ last_action = [a \in ApplicationIds |-> "none"]

\* The seeded store with every combination of application statuses.
Init ==
    /\ Department = SeedDepartment
    /\ Teacher = SeedTeacher
    /\ \E st \in [ApplicationIds -> ApplicationStatuses] :
          Application = [a \in ApplicationIds |->
                            [SeedApplication[a] EXCEPT !.status = st[a]]]
    /\ ApplicationFile = SeedApplicationFile
    /\ Payment = SeedPayment
    /\ NoHistory

\* The seeded store with one relation at a time drawn from all its values:
\* which department each application references, the file rows, the payment rows.
InitColumns ==
    /\ Department = SeedDepartment
    /\ Teacher = SeedTeacher
    /\ \/ /\ \E dep \in [ApplicationIds -> DepartmentIds] :
                Application = [a \in ApplicationIds |->
                                  [SeedApplication[a] EXCEPT !.department = dep[a]]]
          /\ ApplicationFile = SeedApplicationFile
          /\ Payment = SeedPayment
       \/ /\ Application = SeedApplication
          /\ ApplicationFile \in
                [FileIds -> [application : ApplicationIds, file : FileNames]]
          /\ Payment = SeedPayment
       \/ /\ Application = SeedApplication
          /\ ApplicationFile = SeedApplicationFile
          /\ Payment \in
                [PaymentIds -> [application : ApplicationIds, amount : Amounts,
                                status : PaymentStatuses]]
    /\ NoHistory

NextColumns ==
    \/ \E obj \in DepartmentIds : application_count(obj)
    \/ \E obj \in FileIds : file_preview(obj)
    \/ \E obj \in ApplicationIds : has_payment(obj)
    \/ \E obj \in ApplicationIds : file_count(obj)
    \/ \E obj \in PaymentIds : application_link(obj)

NextActions ==
    \/ \E queryset \in SUBSET ApplicationIds : mark_as_pending(queryset)
    \/ \E queryset \in SUBSET ApplicationIds : mark_as_under_review(queryset)
    \/ \E queryset \in SUBSET ApplicationIds : mark_as_approved(queryset)
    \/ \E queryset \in SUBSET ApplicationIds : mark_as_rejected(queryset)

Next == NextActions \/ NextColumns

Spec == Init /\ [][Next]_vars
SpecActions == Init /\ [][NextActions]_vars
SpecColumns == InitColumns /\ [][NextColumns]_vars


(* ======================= properties of the handlers ==================== *)
\* The status an application has now.
StatusOf(a) == Application[a].status

\* A step of one of the four bulk actions on the selection queryset.
SomeBulkAction(queryset) ==
    \/ mark_as_pending(queryset)
    \/ mark_as_under_review(queryset)
    \/ mark_as_approved(queryset)
    \/ mark_as_rejected(queryset)

\* A step that evaluates one derived display column: the step of the handler
\* whose column and object the response of the step carries.
SomeColumn ==
    LET column == rendered'.column
        obj == rendered'.obj
    IN  \/ column = "application_count" /\ application_count(obj)
        \/ column = "file_preview" /\ file_preview(obj)
        \/ column = "has_payment" /\ has_payment(obj)
        \/ column = "file_count" /\ file_count(obj)
        \/ column = "application_link" /\ application_link(obj)

\* C1: each bulk action leaves every selected application with exactly its own
\* target status (pending / under_review / approved / rejected), whatever the
\* status was before the step.
BulkActionSetsTarget ==
    [][\A queryset \in SUBSET ApplicationIds :
          /\ mark_as_pending(queryset) =>
                \A a \in queryset : Application'[a].status = "pending"
          /\ mark_as_under_review(queryset) =>
                \A a \in queryset : Application'[a].status = "under_review"
          /\ mark_as_approved(queryset) =>
                \A a \in queryset : Application'[a].status = "approved"
          /\ mark_as_rejected(queryset) =>
                \A a \in queryset : Application'[a].status = "rejected"]_vars

\* C1 witness: an application that a bulk action moved away from its initial
\* status now carries that action's target.
BulkActionApplied ==
    \E a \in ApplicationIds :
        /\ last_action[a] # "none"
        /\ last_action[a] # initial_status[a]
        /\ StatusOf(a) = last_action[a]

\* C2: a bulk action leaves every unselected application record as it was, the
\* empty selection included (then no record changes at all).
BulkActionKeepsUnselected ==
    [][\A queryset \in SUBSET ApplicationIds :
          SomeBulkAction(queryset) =>
              \A a \in ApplicationIds \ queryset : Application'[a] = Application[a]]_vars

\* C2 witness: one application was moved by a bulk action while another, never
\* selected with a status to change, still has its initial status.
UnselectedKept ==
    \E a, b \in ApplicationIds :
        /\ last_action[a] = "none"
        /\ StatusOf(a) = initial_status[a]
        /\ last_action[b] # "none"
        /\ StatusOf(b) # initial_status[b]
        /\ StatusOf(b) # StatusOf(a)

\* Completed payments of an application, and the total of a set of payments,
\* stated without the queries of the handlers.
CompletedPayments(a) ==
    {p \in PaymentIds : Payment[p].application = a /\ Payment[p].status = "completed"}
TotalOf(ps) ==
    LET amounts == [p \in ps |-> Payment[p].amount]
        add[S \in SUBSET ps] ==
            IF S = {} THEN 0
            ELSE LET p == CHOOSE q \in S : TRUE IN amounts[p] + add[S \ {p}]
    IN  add[ps]

\* C3 as stated: has_payment is positive exactly when a completed payment
\* exists, and an amount is displayed that equals the total of the completed
\* payments, 0 when there are none.
HasPaymentShowsTotalEvenIfNone ==
    rendered.column = "has_payment" =>
        /\ rendered.color = "green" <=> CompletedPayments(rendered.obj) # {}
        /\ rendered.amount = <<TotalOf(CompletedPayments(rendered.obj))>>

\* C3 amended: has_payment is positive exactly when a completed payment exists;
\* when positive it displays the total of the completed payments only, and
\* when negative it displays no amount at all.
HasPaymentShowsCompletedTotal ==
    rendered.column = "has_payment" =>
        /\ rendered.raised = ""
        /\ rendered.color \in {"green", "red"}
        /\ rendered.color = "green" <=> CompletedPayments(rendered.obj) # {}
        /\ rendered.color = "green" =>
              rendered.amount = <<TotalOf(CompletedPayments(rendered.obj))>>
        /\ rendered.color = "red" => rendered.amount = <<>>

\* C3 witness: has_payment evaluated for an application with two completed
\* payments and one payment that is not completed, showing the total of the two.
HasPaymentMixed ==
    /\ rendered.column = "has_payment"
    /\ Cardinality(CompletedPayments(rendered.obj)) = 2
    /\ \E p \in PaymentIds :
          Payment[p].application = rendered.obj /\ Payment[p].status # "completed"
    /\ rendered.color = "green"
    /\ rendered.amount = <<150>>

\* C4 as stated: application_count returns a link whose text is the number of
\* applications referencing the department and whose target is the application
\* list filtered on that department's identifier.
ApplicationCountLinks ==
    rendered.column = "application_count" =>
        /\ rendered.raised = ""
        /\ rendered.text =
              ToString(Cardinality({a \in ApplicationIds :
                                       Application[a].department = rendered.obj}))
        /\ rendered.href.query =
              "department__id__exact=" \o ToString(Department[rendered.obj].id)

\* C5 as stated: application_link returns a link labelled with the full name of
\* the payment's application whose target is the detail view of that application.
ApplicationLinkLinks ==
    rendered.column = "application_link" =>
        /\ rendered.raised = ""
        /\ rendered.text = Application[Payment[rendered.obj].application].full_name
        /\ rendered.href.arg = ToString(Payment[rendered.obj].application)

\* C6: file_count is the number of ApplicationFile rows owned by the
\* application; rows of other applications are not counted.
FileCountCountsOwnFiles ==
    rendered.column = "file_count" =>
        /\ rendered.raised = ""
        /\ rendered.text =
              ToString(Cardinality({f \in FileIds :
                                       ApplicationFile[f].application = rendered.obj}))

\* C6 witness: file_count evaluated to 0 for an application while file rows of
\* another application exist.
FileCountZeroBesideOthers ==
    /\ rendered.column = "file_count"
    /\ rendered.text = "0"
    /\ \E f \in FileIds : ApplicationFile[f].application # rendered.obj

\* C7: no transition graph: in every reachable state, whatever status an
\* application has, each of the four bulk actions can be taken on any selection,
\* and for every target status a single bulk-action step moves the application
\* to it.
NoTransitionGraph ==
    /\ \A queryset \in SUBSET ApplicationIds :
          /\ ENABLED mark_as_pending(queryset)
          /\ ENABLED mark_as_under_review(queryset)
          /\ ENABLED mark_as_approved(queryset)
          /\ ENABLED mark_as_rejected(queryset)
    /\ \A a \in ApplicationIds, t \in ApplicationStatuses :
          ENABLED (SomeBulkAction({a}) /\ Application'[a].status = t)

\* C7 witness: an application that started approved is pending after a bulk
\* action (a backwards move), and one was marked with the status it had.
BackwardsMoveTaken ==
    /\ \E a \in ApplicationIds :
          /\ initial_status[a] = "approved"
          /\ last_action[a] = "pending"
          /\ StatusOf(a) = "pending"
    /\ \E b \in ApplicationIds :
          initial_status[b] = last_action[b] /\ StatusOf(b) = last_action[b]

\* C8: evaluating a derived display column leaves every Department, Teacher,
\* Application, ApplicationFile and Payment record unchanged.
ColumnsReadOnly ==
    [][SomeColumn => store' = store]_vars

\* C8 witness: a column has been evaluated after a bulk update changed a
\* status, and the update's result is still in the store.
ColumnEvaluatedAfterUpdate ==
    /\ rendered.column = "has_payment"
    /\ \E a \in ApplicationIds :
          /\ last_action[a] # "none"
          /\ StatusOf(a) = last_action[a]
          /\ StatusOf(a) # initial_status[a]

\* C9: file_preview is a "View File" link to the stored file's URL exactly when
\* the ApplicationFile has a file attached, and the text "-" without a link
\* when it has none.
FilePreviewIffAttached ==
    rendered.column = "file_preview" =>
        LET name == ApplicationFile[rendered.obj].file
        IN  /\ rendered.raised = ""
            /\ rendered.kind = "a" <=> name # ""
            /\ name # "" =>
                  /\ rendered.text = "View File"
                  /\ rendered.href = [name |-> "storage", arg |-> name, query |-> ""]
            /\ name = "" =>
                  /\ rendered.text = "-"
                  /\ rendered.kind = "text"
                  /\ rendered.href = NoUrl

\* C9 witness: file_preview evaluated for a row without a file while another
\* row has one.
FilePreviewPlaceholder ==
    /\ rendered.column = "file_preview"
    /\ ApplicationFile[rendered.obj].file = ""
    /\ rendered.text = "-"
    /\ \E f \in FileIds : ApplicationFile[f].file # ""

\* C10: last action wins: every application's status is the target of the most
\* recent bulk action that selected it, or its initial status if none did; it
\* stays one of the four statuses; and the bulk actions have changed nothing
\* but the status field (no other Application field, no other record).
LastActionWins ==
    /\ \A a \in ApplicationIds :
          /\ StatusOf(a) = IF last_action[a] = "none" THEN initial_status[a]
                           ELSE last_action[a]
          /\ StatusOf(a) \in ApplicationStatuses
          /\ Application[a] = [SeedApplication[a] EXCEPT !.status = StatusOf(a)]
    /\ Department = SeedDepartment
    /\ Teacher = SeedTeacher
    /\ ApplicationFile = SeedApplicationFile
    /\ Payment = SeedPayment

\* C10 witness: one application was never selected and keeps its initial
\* status while another carries the target of the last action that selected it,
\* which differs from its initial status.
LastActionWon ==
    \E a, b \in ApplicationIds :
        /\ last_action[a] = "none"
        /\ StatusOf(a) = initial_status[a]
        /\ last_action[b] = "rejected"
        /\ initial_status[b] = "approved"
        /\ StatusOf(b) = "rejected"

====
